---- MODULE Spec2Model ----
(***************************************************************************)
(* Model of the oauth_gateway request handler (src/src/main.rs), the       *)
(* access-token extraction (src/src/auth.rs), the public-route test        *)
(* (src/src/config/server.rs), the certificate resolver and TlsManager     *)
(* (src/src/tls_manager.rs) and the listeners with their accept queue      *)
(* (src/src/listener.rs, src/src/listener_manager.rs).                     *)
(*                                                                         *)
(* Spec runs the handler, SpecTls the TlsManager, SpecListeners the        *)
(* ListenerManager, SpecMain the program from main on with its             *)
(* per-connection tasks; each leaves the variables it does not use as Init *)
(* made them.                                                              *)
(*                                                                         *)
(* Strings are sequences of tokens.  A token is a character ("a", "A",     *)
(* ":", " "), a keyword that the code compares as a whole ("Bearer"), a    *)
(* path segment with its leading slash ("/a", "/.."), or "\\xFF", a byte   *)
(* that is neither visible ASCII nor valid UTF-8.                          *)
(***************************************************************************)
EXTENDS Integers, Sequences, FiniteSets, TLC

VARIABLES
    pc,                 \* position of the handler future: idle, introspecting, forwarding, responded
    conn,               \* RequestHandler fields: listen_addr, sni_hostname, client_addr
    request,            \* the client's request as hyper hands it to call()
    server,             \* index in servers of the selected server, 0 when none
    is_public,          \* result of server.is_public_route(request.uri())
    intro,              \* outcome of the introspection call: none, failed, undecodable, inactive, active
    token_info,         \* Some(IntrospectionResult) or None
    upstream_request,   \* the reqwest::Request handed to http.execute, or None
    upstream_failed,    \* http.execute returned an error
    response,           \* what call() resolved to, or None while pending
    introspect_calls,   \* requests sent to the OIDC introspection endpoint for this request
    upstream_calls      \* requests handed to the upstream executor for this request

handler_vars == <<pc, conn, request, server, is_public, intro, token_info, upstream_request,
                  upstream_failed, response, introspect_calls, upstream_calls>>

VARIABLES
    acceptors,          \* TlsManager.acceptors: per listen address None, or Some(certified_keys of its CertResolver)
    registered,         \* the registrations that returned Ok, oldest first
    tls_call            \* the last call on the TlsManager or a CertResolver, with what it returned

tls_vars == <<acceptors, registered, tls_call>>

VARIABLES
    listeners,          \* ListenerManager.listeners: the addresses that have a Listener in the table
    listeners_lock,     \* the tokio Mutex around listeners: None, or Some(task that holds it)
    task,               \* per calling task: where it is in start_listening_on / stop_listening_on, and what its last call returned
    loop,               \* per listen address the position of the spawned listener_loop: none, accept, sleep, send
    held,               \* per listen address the Accepted its loop is sending, or None
    shutdown,           \* per listen address: shutdown() was called on the Shutdown of its Listener
    sockets,            \* per listen address the number of open TcpListener sockets bound to it
    queue,              \* the messages in the mpsc channel socket_tx -> socket_rx, oldest first
    delivered,          \* what the last ListenerManager::accept returned: None, or Some(Ok(Accepted)), or Some(Err)
    accepted_count,     \* connections accepted so far by all listeners
    manager_dropped     \* the ListenerManager (with the App) has been dropped

listener_vars == <<listeners, listeners_lock, task, loop, held, shutdown, sockets, queue,
                   delivered, accepted_count, manager_dropped>>

VARIABLES
    main,               \* where main is: registering keys, starting listeners (index of the server), in its accept loop, or returned
    clients,            \* per accepted stream the task handle_client spawned for it: its state, its RequestHandler fields, the tasks spawned
    served              \* the last request a RequestHandler was called with: its stream, its Host header and the server selected

supervisor_vars == <<main, clients, served>>

vars == <<handler_vars, tls_vars, listener_vars, supervisor_vars>>

\* Option<T>: None, or Some(x) with x == Unwrap(Some(x))
None == << >>
Some(x) == <<x>>
Unwrap(o) == o[1]

(***************************************************************************)
(* Bounds of the model.                                                    *)
(***************************************************************************)
MaxRoles == 2
MaxPathLen == 2
MaxRegistrations == 3
MaxAccepted == 3

\* capacity of the accept queue; the source has 100, the model a small capacity
\* that the listeners of the model can fill
MAX_UNACCEPTED_SOCKETS == 1

SeqsUpTo(S, n) == UNION {[1..k -> S] : k \in 0..n}

(***************************************************************************)
(* Letter case: u8::eq_ignore_ascii_case / unicase::Ascii on tokens.       *)
(***************************************************************************)
ToAsciiLower(c) ==
    CASE c = "A" -> "a"
      [] c = "B" -> "b"
      [] c = "C" -> "c"
      [] c = "Bearer" -> "bearer"
      [] c = "BEARER" -> "bearer"
      [] c = "Token" -> "token"
      [] OTHER -> c

\* unicase::Ascii<S> == Ascii<T>
AsciiEq(a, b) ==
    /\ Len(a) = Len(b)
    /\ \A i \in 1..Len(a) : ToAsciiLower(a[i]) = ToAsciiLower(b[i])

(***************************************************************************)
(* hyper::HeaderMap: a multimap from header name to the list of values.    *)
(* A value carries its text v and the party that put it there.             *)
(***************************************************************************)
HOST == "host"
AUTHORIZATION == "authorization"
FORWARDED == "forwarded"
X_USER_ID == "x-user-id"
X_USER_NAME == "x-user-name"
X_USER_ROLE == "x-user-role"

HeaderNames == {HOST, AUTHORIZATION, FORWARDED, X_USER_ID, X_USER_NAME, X_USER_ROLE}

HeaderGet(h, n) == IF h[n] = << >> THEN None ELSE Some(h[n][1])
HeaderRemove(h, n) == [h EXCEPT ![n] = <<>>]
HeaderInsert(h, n, val) == [h EXCEPT ![n] = <<val>>]
HeaderAppend(h, n, val) == [h EXCEPT ![n] = Append(@, val)]

ClientValue(s) == [v |-> s, by |-> "client"]
ProxyValue(s) == [v |-> s, by |-> "proxy"]

\* HeaderValue::to_str / str::from_utf8: fails on a byte that is not text
IsText(s) == \A i \in 1..Len(s) : s[i] # "\\xFF"

\* str::parse::<HeaderValue>: control characters are rejected
IsValidHeaderValue(s) == \A i \in 1..Len(s) : s[i] # "\\n"

(***************************************************************************)
(* Configuration: config.servers, immutable after startup.                 *)
(* config_file holds public_routes as written in the configuration file;   *)
(* servers is what deserialization makes of it.                            *)
(***************************************************************************)
config_file == <<
    [name |-> <<"a">>, listen |-> "L1", upstream |-> <<"u", "1">>, upstream_tls |-> FALSE,
     public_routes |-> << <<"/a", "|", "/b">> >>],
    [name |-> <<"B">>, listen |-> "L1", upstream |-> <<"u", "2">>, upstream_tls |-> TRUE,
     public_routes |-> << >>],
    [name |-> <<"a">>, listen |-> "L2", upstream |-> <<"u", "3">>, upstream_tls |-> TRUE,
     public_routes |-> << <<"/a">>, <<"/b", ".*">> >>],
    [name |-> << >>, listen |-> "L2", upstream |-> <<"u", "4">>, upstream_tls |-> FALSE,
     public_routes |-> << <<"/a">> >>],
    [name |-> <<"c">>, listen |-> "L1", upstream |-> <<"u", " ">>, upstream_tls |-> FALSE,
     public_routes |-> << <<"/a">> >>]
>>


\* deserialize_patterns: every pattern p becomes format!("^{}$", p)
deserialize_patterns(patterns) ==
    [i \in 1..Len(patterns) |-> <<"^">> \o patterns[i] \o <<"$">>]

servers ==
    [i \in 1..Len(config_file) |->
        [config_file[i] EXCEPT !.public_routes = deserialize_patterns(@)]]

(***************************************************************************)
(* regex: a pattern is a sequence of atoms: a literal token, ".*", the     *)
(* assertions "^" and "$", and "|", which binds weakest.                   *)
(***************************************************************************)
RECURSIVE Alternatives(_)
Alternatives(re) ==
    IF \E i \in 1..Len(re) : re[i] = "|"
    THEN LET i == CHOOSE i \in 1..Len(re) :
                      re[i] = "|" /\ \A j \in 1..(i - 1) : re[j] # "|"
         IN  {SubSeq(re, 1, i - 1)} \cup Alternatives(SubSeq(re, i + 1, Len(re)))
    ELSE {re}

\* atoms k.. of alt match text starting after position i (0-based offset)
RECURSIVE MatchFrom(_, _, _, _)
MatchFrom(alt, k, text, i) ==
    IF k > Len(alt) THEN TRUE
    ELSE CASE alt[k] = "^" -> i = 0 /\ MatchFrom(alt, k + 1, text, i)
           [] alt[k] = "$" -> i = Len(text) /\ MatchFrom(alt, k + 1, text, i)
           [] alt[k] = ".*" -> \E j \in i..Len(text) : MatchFrom(alt, k + 1, text, j)
           [] OTHER -> /\ i < Len(text)
                       /\ text[i + 1] = alt[k]
                       /\ MatchFrom(alt, k + 1, text, i + 1)

\* Regex::is_match: an unanchored search
RegexIsMatch(re, text) ==
    \E alt \in Alternatives(re) : \E i \in 0..Len(text) : MatchFrom(alt, 1, text, i)

\* RegexSet::is_match: any pattern of the set matches
RegexSetIsMatch(set, text) == \E n \in 1..Len(set) : RegexIsMatch(set[n], text)

\* a route test that matches the patterns against path and query together
is_public_route_with_query(s, uri) ==
    RegexSetIsMatch(s.public_routes,
        uri.path \o (IF uri.query = None THEN << >> ELSE <<"?">> \o Unwrap(uri.query)))

\* Server::is_public_route
is_public_route(s, uri) == RegexSetIsMatch(s.public_routes, uri.path)


(***************************************************************************)
(* Host resolution and virtual-host routing.                               *)
(***************************************************************************)
\* str::split_once(":").map(|(host, _port)| host).unwrap_or(host)
BeforeFirstColon(host) ==
    IF \E i \in 1..Len(host) : host[i] = ":"
    THEN LET i == CHOOSE i \in 1..Len(host) :
                      host[i] = ":" /\ \A j \in 1..(i - 1) : host[j] # ":"
         IN  SubSeq(host, 1, i - 1)
    ELSE host

Ok(val) == [ok |-> TRUE, v |-> val]
Err == [ok |-> FALSE]

\* RequestHandler::extract_host_name
extract_host_name(self, req) ==
    LET host == HeaderGet(req.headers, HOST) IN
    IF self.sni_hostname # None THEN Ok(Unwrap(self.sni_hostname))
    ELSE IF host = None THEN Err
    ELSE IF ~IsText(Unwrap(host).v) THEN Err
    ELSE Ok(BeforeFirstColon(Unwrap(host).v))

\* a lookup by name alone
find_server_any_listen(self, host_name) ==
    LET matching == {i \in 1..Len(servers) : AsciiEq(servers[i].name, host_name)}
    IN  IF matching = {} THEN 0
        ELSE CHOOSE i \in matching : \A j \in matching : i <= j

\* servers.iter().find(|server| server.listen == self.listen_addr &&
\*                              Ascii::new(&server.name) == host_name): 0 stands for None
find_server(self, host_name) ==
    LET matching == {i \in 1..Len(servers) :
                        /\ servers[i].listen = self.listen_addr
                        /\ AsciiEq(servers[i].name, host_name)}
    IN  IF matching = {} THEN 0
        ELSE CHOOSE i \in matching : \A j \in matching : i <= j

(***************************************************************************)
(* Access token: src/src/auth.rs                                           *)
(***************************************************************************)
\* str::split_whitespace: the maximal runs of tokens other than " "
RECURSIVE split_whitespace(_)
split_whitespace(s) ==
    IF s = << >> THEN << >>
    ELSE IF s[1] = " " THEN split_whitespace(Tail(s))
    ELSE LET stops == {i \in 1..Len(s) : s[i] = " "}
             n == IF stops = {} THEN Len(s)
                  ELSE (CHOOSE i \in stops : \A j \in stops : i <= j) - 1
         IN  <<SubSeq(s, 1, n)>> \o split_whitespace(SubSeq(s, n + 1, Len(s)))

\* an extraction that knows the bearer scheme only
extract_access_token_bearer_only(req) ==
    LET auth == HeaderGet(req.headers, AUTHORIZATION) IN
    IF auth = None THEN None
    ELSE IF ~IsText(Unwrap(auth).v) THEN None
    ELSE LET fields == split_whitespace(Unwrap(auth).v) IN
         IF Len(fields) < 2 THEN None
         ELSE IF ~AsciiEq(fields[1], <<"bearer">>) THEN None
         ELSE Some(fields[2])

\* extract_access_token: None, or the token
extract_access_token(req) ==
    LET auth == HeaderGet(req.headers, AUTHORIZATION) IN
    IF auth = None THEN None
    ELSE IF ~IsText(Unwrap(auth).v) THEN None
    ELSE LET fields == split_whitespace(Unwrap(auth).v) IN
         IF Len(fields) < 2 THEN None
         ELSE IF /\ ~AsciiEq(fields[1], <<"token">>)
                 /\ ~AsciiEq(fields[1], <<"bearer">>) THEN None
         ELSE Some(fields[2])


(***************************************************************************)
(* Rewrite for the upstream: src/src/main.rs lines 248-276, 335-388        *)
(***************************************************************************)
\* str::parse::<Authority>
ParseAuthority(s) ==
    IF s # << >> /\ \A i \in 1..Len(s) : s[i] # " " THEN Ok(s) ELSE Err

\* url::Url::parse on the path of an http(s) URL: ".." segments are resolved
RECURSIVE RemoveDotSegments(_, _)
RemoveDotSegments(input, output) ==
    IF input = << >> THEN output
    ELSE IF Head(input) = "/.."
    THEN LET popped == IF output = << >> THEN << >>
                       ELSE SubSeq(output, 1, Len(output) - 1)
         IN  IF Tail(input) = << >> THEN Append(popped, "/")
             ELSE RemoveDotSegments(Tail(input), popped)
    ELSE RemoveDotSegments(Tail(input), Append(output, Head(input)))

\* reqwest::Request::try_from(http::Request): Url::parse(&uri.to_string())
UrlParse(uri) ==
    [scheme |-> uri.scheme,
     authority |-> Some([i \in 1..Len(Unwrap(uri.authority)) |->
                            ToAsciiLower(Unwrap(uri.authority)[i])]),
     path |-> RemoveDotSegments(uri.path, << >>),
     query |-> uri.query]

\* remove_dangerous_headers
remove_dangerous_headers(headers) ==
    HeaderRemove(HeaderRemove(HeaderRemove(HeaderRemove(headers,
        HOST), AUTHORIZATION), X_USER_ID), X_USER_NAME)

\* a rewrite that appends Forwarded to what the client sent, and quotes nothing
create_upstream_request_append(req, client_addr) ==
    [version |-> req.version,
     url |-> UrlParse(req.uri),
     headers |-> HeaderAppend(req.headers, FORWARDED,
                    ProxyValue(<<"for=">> \o client_addr.text))]

\* create_upstream_request
create_upstream_request(req, client_addr) ==
    LET addr == IF client_addr.family = "V4" THEN client_addr.text
                ELSE <<"\"">> \o client_addr.text \o <<"\"">>
        forwarded == <<"for=">> \o addr
    IN  [version |-> req.version,
         url |-> UrlParse(req.uri),
         headers |-> HeaderInsert(req.headers, FORWARDED, ProxyValue(forwarded))]

\* a loop that inserts each role instead of appending it
RECURSIVE insert_roles(_, _)
insert_roles(headers, roles) ==
    IF roles = << >> THEN headers
    ELSE insert_roles(
            IF IsValidHeaderValue(Head(roles))
            THEN HeaderInsert(headers, X_USER_ROLE, ProxyValue(Head(roles)))
            ELSE headers,
            Tail(roles))

\* a loop that ends at the first role that is not a header value
RECURSIVE append_roles_until_invalid(_, _)
append_roles_until_invalid(headers, roles) ==
    IF roles = << >> \/ ~IsValidHeaderValue(Head(roles)) THEN headers
    ELSE append_roles_until_invalid(
            HeaderAppend(headers, X_USER_ROLE, ProxyValue(Head(roles))), Tail(roles))

\* the loop over token.realm_access.roles
RECURSIVE append_roles(_, _)
append_roles(headers, roles) ==
    IF roles = << >> THEN headers
    ELSE append_roles(
            IF IsValidHeaderValue(Head(roles))
            THEN HeaderAppend(headers, X_USER_ROLE, ProxyValue(Head(roles)))
            ELSE headers,
            Tail(roles))

\* enrich_request_with_token_info
enrich_request_with_token_info(headers, tok) ==
    IF tok.sub # None /\ ~IsValidHeaderValue(Unwrap(tok.sub)) THEN Err
    ELSE IF tok.username # None /\ ~IsValidHeaderValue(Unwrap(tok.username)) THEN Err
    ELSE LET h1 == IF tok.sub # None
                   THEN HeaderInsert(headers, X_USER_ID, ProxyValue(Unwrap(tok.sub)))
                   ELSE headers
             h2 == IF tok.username # None
                   THEN HeaderInsert(h1, X_USER_NAME, ProxyValue(Unwrap(tok.username)))
                   ELSE h1
         IN  Ok(append_roles(h2, tok.roles))

\* proxy_request from the upstream_authority to the call of http.execute:
\* the request to execute, or the error that `?` returns
build_upstream_request(self, req, srv, tok) ==
    LET authority == ParseAuthority(srv.upstream) IN
    IF ~authority.ok THEN Err
    ELSE LET uri == [req.uri EXCEPT
                        !.scheme = Some(IF srv.upstream_tls THEN "https" ELSE "http"),
                        !.authority = Some(authority.v)]
             stripped == [req EXCEPT !.uri = uri,
                                     !.headers = remove_dangerous_headers(req.headers)]
             up == create_upstream_request(stripped, self.client_addr)
         IN  IF tok = None THEN Ok(up)
             ELSE LET enriched == enrich_request_with_token_info(up.headers, Unwrap(tok)) IN
                  IF enriched.ok THEN Ok([up EXCEPT !.headers = enriched.v]) ELSE Err

(***************************************************************************)
(* Responses                                                               *)
(***************************************************************************)
\* Response::builder().status(status).body(Body::empty()): the builder's
\* version is Version::default()
synthetic_response(status) == [ok |-> TRUE, status |-> status, version |-> "HTTP/1.1"]

\* Response::builder().status(upstream_response.status()).version(http_version)
mirror_response(status, http_version) ==
    [ok |-> TRUE, status |-> status, version |-> http_version]

\* a call that hands the result of proxy_request to the connection as it is
call_result_unmapped(result) == result

\* RequestHandler::call: an Err of proxy_request becomes a 500
call_result(result) == IF result.ok THEN result ELSE synthetic_response(500)

(***************************************************************************)
(* Inputs                                                                  *)
(***************************************************************************)
ListenAddrs == {"L1", "L2"}
SniHostnames == {None, Some(<<"b">>)}
ClientAddrs ==
    {[family |-> "V4", text |-> <<"1.2.3.4:5">>], [family |-> "V6", text |-> <<"[::1]:5">>]}
Versions == {"HTTP/1.0", "HTTP/1.1"}
HostValues ==
    {None, Some(<<"a">>), Some(<<"A", ":", "8">>), Some(<<":", "8">>), Some(<<"\\xFF">>),
     Some(<<"c">>)}
AuthorizationValues ==
    {None, Some(<<"Bearer", " ", "t">>), Some(<<"basic", " ", "t">>), Some(<<"bearer">>)}
ForgedValues == {None, Some(<<"evil">>)}
Segments == {"/a", "/b", "/.."}
Paths == SeqsUpTo(Segments, MaxPathLen) \ {<< >>}
Queries == {None, Some(<<"q">>)}

ClientHeader(val) == IF val = None THEN << >> ELSE <<ClientValue(Unwrap(val))>>

Connections ==
    [listen_addr : ListenAddrs, sni_hostname : SniHostnames, client_addr : ClientAddrs]

ClientRequest(version, path, query, host, auth, id, name, role) ==
    [version |-> version,
     uri |-> [scheme |-> None, authority |-> None, path |-> path, query |-> query],
     headers |->
        [n \in HeaderNames |->
            CASE n = HOST -> ClientHeader(host)
              [] n = AUTHORIZATION -> ClientHeader(auth)
              [] n = X_USER_ID -> ClientHeader(id)
              [] n = X_USER_NAME -> ClientHeader(name)
              [] n = X_USER_ROLE -> ClientHeader(role)
              [] OTHER -> << >>]]

\* requests that vary in version, URI, Host and Authorization
RoutingRequests ==
    {ClientRequest(version, path, query, host, auth, None, None, None) :
        version \in Versions, path \in Paths, query \in Queries,
        host \in HostValues, auth \in AuthorizationValues}

\* requests that vary in the identity headers the client sends
IdentityRequests ==
    {ClientRequest("HTTP/1.1", path, None, Some(<<"a">>), auth, id, name, role) :
        path \in Paths, auth \in AuthorizationValues,
        id \in ForgedValues, name \in ForgedValues, role \in ForgedValues}

\* Authorization headers that vary in scheme, spacing and number of fields
TokenHeaders ==
    {<<"Token", " ", "t">>, <<"BEARER", " ", " ", "t", "2">>,
     <<" ", "bearer", " ", "t", " ", "x">>, <<"Bearer", " ", "\\xFF">>,
     <<"Bearer", " ">>, <<"Bearer", "t">>, <<"t", " ", "Bearer">>}

\* requests that vary in the form of the Authorization header
TokenRequests ==
    {ClientRequest("HTTP/1.1", <<path>>, None, Some(<<"a">>), Some(auth), None, None, None) :
        path \in Segments, auth \in TokenHeaders}

\* requests that bring a Forwarded header of their own
ForwardedRequests ==
    {[ClientRequest("HTTP/1.1", <<path>>, None, Some(<<"a">>), auth, None, None, None)
        EXCEPT !.headers[FORWARDED] = <<ClientValue(<<"for=", "6.6.6.6">>)>>] :
        path \in Segments, auth \in AuthorizationValues}

Requests == RoutingRequests \cup IdentityRequests \cup TokenRequests \cup ForwardedRequests

Subs == {None, Some(<<"u1">>), Some(<<"u", "\\n">>)}
Usernames == {None, Some(<<"alice">>)}
RoleValues == {<<"admin">>, <<"ops">>, <<"r", "\\n">>}
IntrospectionResults ==
    [active : {TRUE}, sub : Subs, username : Usernames,
     roles : SeqsUpTo(RoleValues, MaxRoles)]
    \cup {[active |-> FALSE, sub |-> None, username |-> None, roles |-> << >>]}
UpstreamStatuses == {200, 503}

\* the realm_access member of an introspection response: an object with a list
\* of roles, no such member, or a member of another shape
RealmAccessShapes ==
    {[shape |-> "roles", roles |-> << <<"admin">> >>],
     [shape |-> "absent", roles |-> << >>],
     [shape |-> "malformed", roles |-> << >>]}

\* bodies of an active introspection response that vary in realm_access
IntrospectionBodies ==
    [active : {TRUE}, sub : {Some(<<"u1">>)}, username : {Some(<<"alice">>)},
     realm_access : RealmAccessShapes]

\* serde on the untagged enum extensions::Token, whose only variant
\* keybase::Token requires realm_access, which requires roles: Vec<String>
deserialize_token(realm_access) ==
    IF realm_access.shape = "roles" THEN Ok(realm_access.roles) ELSE Err

\* the introspection response as request_async decodes it, the extension
\* fields flattened into it
deserialize_introspection(body) ==
    LET token == deserialize_token(body.realm_access) IN
    IF ~token.ok THEN Err
    ELSE Ok([active |-> body.active, sub |-> body.sub, username |-> body.username,
             roles |-> token.v])


(***************************************************************************)
(* verify_access_token, on both sides of its await                         *)
(***************************************************************************)
\* up to oidc.introspect(..).request_async(..): the token to introspect, or
\* None when the function returns Ok(None) without a call
verify_access_token_begin(req) == extract_access_token(req)

\* a verification that does not look at the active field
verify_access_token_end_any(introspection) ==
    IF ~introspection.ok THEN Err ELSE Ok(Some(introspection.v))

\* after the await: Err, Ok(None) or Ok(Some(introspection))
verify_access_token_end(introspection) ==
    IF ~introspection.ok THEN Err
    ELSE IF ~introspection.v.active THEN Ok(None)
    ELSE Ok(Some(introspection.v))

(***************************************************************************)
(* Certificates: src/src/tls_manager.rs                                    *)
(***************************************************************************)
DnsLetters == {"a", "A", "b", "B", "c", "C"}

\* webpki::DnsNameRef::try_from_ascii_str(..).is_ok()
IsDnsName(s) == s # << >> /\ \A i \in 1..Len(s) : s[i] \in DnsLetters

\* HashMap<Ascii<_>, _>::insert: an entry with an equal key keeps its key and
\* takes the new value
HashMapInsert(map, name, key) ==
    IF \E e \in map : AsciiEq(e.name, name)
    THEN {IF AsciiEq(e.name, name) THEN [e EXCEPT !.key = key] ELSE e : e \in map}
    ELSE map \cup {[name |-> name, key |-> key]}

\* a lookup that compares names byte by byte
HashMapGetExact(map, name) ==
    IF \E e \in map : e.name = name
    THEN Some((CHOOSE e \in map : e.name = name).key)
    ELSE None

\* HashMap<Ascii<_>, _>::get(..).map(Arc::clone)
HashMapGet(map, name) ==
    IF \E e \in map : AsciiEq(e.name, name)
    THEN Some((CHOOSE e \in map : AsciiEq(e.name, name)).key)
    ELSE None

\* CertResolver::new
CertResolver_new == {}

\* a registration that validates the name after the insert
CertResolver_add_certified_key_late(certified_keys, server_name, certified_key) ==
    [ok |-> IsDnsName(server_name),
     certified_keys |-> HashMapInsert(certified_keys, server_name, certified_key)]

\* CertResolver::add_certified_key: the result and the map after the call
CertResolver_add_certified_key(certified_keys, server_name, certified_key) ==
    IF ~IsDnsName(server_name)
    THEN [ok |-> FALSE, certified_keys |-> certified_keys]
    ELSE [ok |-> TRUE,
          certified_keys |-> HashMapInsert(certified_keys, server_name, certified_key)]

\* a resolver that falls back to some key of the address
CertResolver_resolve_default(certified_keys, server_name) ==
    IF server_name # None /\ HashMapGet(certified_keys, Unwrap(server_name)) # None
    THEN HashMapGet(certified_keys, Unwrap(server_name))
    ELSE IF certified_keys = {} THEN None
    ELSE Some((CHOOSE e \in certified_keys : TRUE).key)

\* CertResolver::resolve on the server name of the ClientHello
CertResolver_resolve(certified_keys, server_name) ==
    IF server_name = None THEN None
    ELSE HashMapGet(certified_keys, Unwrap(server_name))

\* TlsManager::add_certified_key: the result and acceptors after the call; the
\* entry of listen_addr is made before the key is handed to its resolver
TlsManager_add_certified_key(acc, listen_addr, server_name, certified_key) ==
    LET cert_resolver == IF acc[listen_addr] = None THEN CertResolver_new
                         ELSE Unwrap(acc[listen_addr])
        added == CertResolver_add_certified_key(cert_resolver, server_name, certified_key)
    IN  [ok |-> added.ok,
         acceptors |-> [acc EXCEPT ![listen_addr] = Some(added.certified_keys)]]

\* TlsManager::acceptor: the acceptor of listen_addr, named by its address
TlsManager_acceptor(acc, listen_addr) ==
    IF acc[listen_addr] = None THEN None ELSE Some(listen_addr)

ServerNames == {<<"a">>, <<"A">>, <<"b">>, <<"b", " ">>, << >>}
CertifiedKeys == {"k1", "k2"}
ClientHelloNames == {None, Some(<<"a">>), Some(<<"B">>), Some(<<"c">>)}

TlsCall(op, listen_addr, server_name, certified_key, ok, ret) ==
    Some([op |-> op, listen_addr |-> listen_addr, server_name |-> server_name,
          certified_key |-> certified_key, ok |-> ok, ret |-> ret])

\* app.tls_manager.add_certified_key(listen, name, certified_key)
tls_add_certified_key ==
    /\ Len(registered) < MaxRegistrations
    /\ \E listen_addr \in ListenAddrs, server_name \in ServerNames,
          certified_key \in CertifiedKeys :
          LET added == TlsManager_add_certified_key(acceptors, listen_addr, server_name,
                                                    certified_key)
          IN  /\ acceptors' = added.acceptors
              /\ registered' =
                    IF added.ok
                    THEN Append(registered, [listen_addr |-> listen_addr,
                                             server_name |-> server_name,
                                             certified_key |-> certified_key])
                    ELSE registered
              /\ tls_call' = TlsCall("add_certified_key", listen_addr, Some(server_name),
                                     Some(certified_key), added.ok, None)
    /\ UNCHANGED <<handler_vars, listener_vars, supervisor_vars>>

\* app.tls_manager.acceptor(&accepted.listen_addr)
tls_acceptor ==
    /\ \E listen_addr \in ListenAddrs :
          tls_call' = TlsCall("acceptor", listen_addr, None, None, TRUE,
                              TlsManager_acceptor(acceptors, listen_addr))
    /\ UNCHANGED <<acceptors, registered, handler_vars, listener_vars, supervisor_vars>>

\* a TLS handshake on listen_addr: rustls asks the resolver of its acceptor
tls_resolve ==
    /\ \E listen_addr \in ListenAddrs, server_name \in ClientHelloNames :
          /\ acceptors[listen_addr] # None
          /\ tls_call' = TlsCall("resolve", listen_addr, server_name, None, TRUE,
                                 CertResolver_resolve(Unwrap(acceptors[listen_addr]),
                                                      server_name))
    /\ UNCHANGED <<acceptors, registered, handler_vars, listener_vars, supervisor_vars>>

TlsNext ==
    \/ tls_add_certified_key
    \/ tls_acceptor
    \/ tls_resolve

(***************************************************************************)
(* Listeners: src/src/listener.rs and src/src/listener_manager.rs          *)
(***************************************************************************)
Tasks == {"t1", "t2"}

Accepted(listen_addr, stream) == [listen_addr |-> listen_addr, stream |-> stream]

TaskAt(pos, op, addr, ret) == [pc |-> pos, op |-> op, addr |-> addr, ret |-> ret]

\* a channel that takes every message at once
has_capacity_unbounded(q) == TRUE

\* mpsc::channel(MAX_UNACCEPTED_SOCKETS): send completes when a permit is free
has_capacity(q) == Len(q) < MAX_UNACCEPTED_SOCKETS

\* ListenerManager::new
ListenerManager_new ==
    /\ listeners = {}
    /\ listeners_lock = None
    /\ task = [t \in Tasks |-> TaskAt("idle", "none", "none", "none")]
    /\ loop = [a \in ListenAddrs |-> "none"]
    /\ held = [a \in ListenAddrs |-> None]
    /\ shutdown = [a \in ListenAddrs |-> FALSE]
    /\ sockets = [a \in ListenAddrs |-> 0]
    /\ queue = << >>
    /\ delivered = None
    /\ accepted_count = 0
    /\ manager_dropped = FALSE

\* start_listening_on(addr), from the lock to the bind: an address that has a
\* Listener returns Ok at once.  A task that finds the mutex taken waits in
\* lock().await, which changes nothing; its call is this step once the mutex
\* is free.
start_listening_on(t, addr) ==
    /\ ~manager_dropped
    /\ task[t].pc = "idle"
    /\ listeners_lock = None
    /\ IF addr \in listeners
       THEN /\ task' = [task EXCEPT ![t] = TaskAt("idle", "start", addr, "ok")]
            /\ UNCHANGED listeners_lock
       ELSE /\ task' = [task EXCEPT ![t] = TaskAt("binding", "start", addr, "none")]
            /\ listeners_lock' = Some(t)
    /\ UNCHANGED <<listeners, loop, held, shutdown, sockets, queue, delivered,
                   accepted_count, manager_dropped>>

\* Listener::start: TcpListener::bind succeeded, the loop is spawned and the
\* Listener goes into the table
Listener_start_ok(t) ==
    /\ task[t].pc = "binding"
    /\ sockets[task[t].addr] = 0
    /\ LET addr == task[t].addr IN
       /\ sockets' = [sockets EXCEPT ![addr] = @ + 1]
       /\ shutdown' = [shutdown EXCEPT ![addr] = FALSE]
       /\ loop' = [loop EXCEPT ![addr] = "accept"]
       /\ listeners' = listeners \cup {addr}
       /\ task' = [task EXCEPT ![t] = TaskAt("idle", "start", addr, "ok")]
    /\ listeners_lock' = None
    /\ UNCHANGED <<held, queue, delivered, accepted_count, manager_dropped>>

\* a start that puts a Listener into the table although the bind failed
Listener_start_err_inserting(t) ==
    /\ task[t].pc = "binding"
    /\ listeners' = listeners \cup {task[t].addr}
    /\ task' = [task EXCEPT ![t] = TaskAt("idle", "start", task[t].addr, "err")]
    /\ listeners_lock' = None
    /\ UNCHANGED <<loop, held, shutdown, sockets, queue, delivered, accepted_count,
                   manager_dropped>>

\* Listener::start: TcpListener::bind failed; `?` returns the error
Listener_start_err(t) ==
    /\ task[t].pc = "binding"
    /\ task' = [task EXCEPT ![t] = TaskAt("idle", "start", task[t].addr, "err")]
    /\ listeners_lock' = None
    /\ UNCHANGED <<listeners, loop, held, shutdown, sockets, queue, delivered,
                   accepted_count, manager_dropped>>

\* a stop that returns without waiting for the loop
stop_listening_on_no_wait(t, addr) ==
    /\ ~manager_dropped
    /\ task[t].pc = "idle"
    /\ listeners_lock = None
    /\ task' = [task EXCEPT ![t] = TaskAt("idle", "stop", addr, "ok")]
    /\ listeners' = listeners \ {addr}
    /\ shutdown' = [shutdown EXCEPT ![addr] = @ \/ addr \in listeners]
    /\ UNCHANGED <<listeners_lock, loop, held, sockets, queue, delivered, accepted_count,
                   manager_dropped>>

\* stop_listening_on(addr), from the lock into Listener::shutdown: the Listener
\* is taken out of the table and shutdown.shutdown() is called
stop_listening_on(t, addr) ==
    /\ ~manager_dropped
    /\ task[t].pc = "idle"
    /\ listeners_lock = None
    /\ IF addr \in listeners
       THEN /\ listeners' = listeners \ {addr}
            /\ shutdown' = [shutdown EXCEPT ![addr] = TRUE]
            /\ task' = [task EXCEPT ![t] = TaskAt("stopping", "stop", addr, "none")]
            /\ listeners_lock' = Some(t)
       ELSE /\ task' = [task EXCEPT ![t] = TaskAt("idle", "stop", addr, "ok")]
            /\ UNCHANGED <<listeners, shutdown, listeners_lock>>
    /\ UNCHANGED <<loop, held, sockets, queue, delivered, accepted_count, manager_dropped>>

\* Listener::shutdown: wait_shutdown_complete() resolves once the wrapped loop
\* is gone; stop_listening_on returns
Listener_shutdown_complete(t) ==
    /\ task[t].pc = "stopping"
    /\ loop[task[t].addr] = "none"
    /\ task' = [task EXCEPT ![t] = TaskAt("idle", "stop", task[t].addr, "ok")]
    /\ listeners_lock' = None
    /\ UNCHANGED <<listeners, loop, held, shutdown, sockets, queue, delivered,
                   accepted_count, manager_dropped>>

\* listener.accept() returns a connection
loop_accept_ok(a) ==
    /\ loop[a] = "accept"
    /\ accepted_count < MaxAccepted
    /\ accepted_count' = accepted_count + 1
    /\ held' = [held EXCEPT ![a] = Some(Accepted(a, accepted_count + 1))]
    /\ loop' = [loop EXCEPT ![a] = "send"]
    /\ UNCHANGED <<listeners, listeners_lock, task, shutdown, sockets, queue, delivered,
                   manager_dropped>>

\* an accept error that ends the loop
loop_accept_err_fatal(a) ==
    /\ loop[a] = "accept"
    /\ loop' = [loop EXCEPT ![a] = "none"]
    /\ sockets' = [sockets EXCEPT ![a] = @ - 1]
    /\ UNCHANGED <<listeners, listeners_lock, task, held, shutdown, queue,
                   delivered, accepted_count, manager_dropped>>

\* listener.accept() returns an error: the loop sleeps one second
loop_accept_err(a) ==
    /\ loop[a] = "accept"
    /\ loop' = [loop EXCEPT ![a] = "sleep"]
    /\ UNCHANGED <<listeners, listeners_lock, task, held, shutdown, sockets, queue,
                   delivered, accepted_count, manager_dropped>>

\* the sleep is over: continue
loop_sleep_over(a) ==
    /\ loop[a] = "sleep"
    /\ loop' = [loop EXCEPT ![a] = "accept"]
    /\ UNCHANGED <<listeners, listeners_lock, task, held, shutdown, sockets, queue,
                   delivered, accepted_count, manager_dropped>>

\* sender.send(accepted).await completes: with the message in the channel, or
\* with an error when the receiver is gone, which breaks the loop
loop_send(a) ==
    /\ loop[a] = "send"
    /\ IF manager_dropped
       THEN /\ loop' = [loop EXCEPT ![a] = "none"]
            /\ sockets' = [sockets EXCEPT ![a] = @ - 1]
            /\ UNCHANGED queue
       ELSE /\ has_capacity(queue)
            /\ queue' = Append(queue, Unwrap(held[a]))
            /\ loop' = [loop EXCEPT ![a] = "accept"]
            /\ UNCHANGED sockets
    /\ held' = [held EXCEPT ![a] = None]
    /\ UNCHANGED <<listeners, listeners_lock, task, shutdown, delivered, accepted_count,
                   manager_dropped>>

\* a cancellation that reaches the loop only while it waits in accept()
loop_cancel_in_accept(a) ==
    /\ shutdown[a]
    /\ loop[a] = "accept"
    /\ loop' = [loop EXCEPT ![a] = "none"]
    /\ held' = [held EXCEPT ![a] = None]
    /\ sockets' = [sockets EXCEPT ![a] = @ - 1]
    /\ UNCHANGED <<listeners, listeners_lock, task, shutdown, queue, delivered,
                   accepted_count, manager_dropped>>

\* shutdown.wrap_cancel: after shutdown() the loop is dropped at its await,
\* with its socket and the connection it holds
loop_cancel(a) ==
    /\ shutdown[a]
    /\ loop[a] # "none"
    /\ loop' = [loop EXCEPT ![a] = "none"]
    /\ held' = [held EXCEPT ![a] = None]
    /\ sockets' = [sockets EXCEPT ![a] = @ - 1]
    /\ UNCHANGED <<listeners, listeners_lock, task, shutdown, queue, delivered,
                   accepted_count, manager_dropped>>

\* the Senders of a channel whose only Senders are the clones in the loops
Senders_of_loops == Cardinality({a \in ListenAddrs : loop[a] # "none"})

\* the Senders of the channel that are alive: socket_tx in the manager and the
\* clone each running loop was started with
Senders ==
    (IF manager_dropped THEN 0 ELSE 1) + Cardinality({a \in ListenAddrs : loop[a] # "none"})

\* socket_rx.recv(): the oldest message; None when the channel is empty and
\* every Sender is gone; pending otherwise
recv_ready == queue # << >> \/ Senders = 0

recv == IF queue # << >> THEN Some(Head(queue)) ELSE None

\* an accept that leaves the message in the channel
ListenerManager_accept_peeking ==
    /\ ~manager_dropped
    /\ recv_ready
    /\ delivered' = Some(IF recv = None THEN Err ELSE Ok(Unwrap(recv)))
    /\ UNCHANGED <<listeners, listeners_lock, task, loop, held, shutdown, sockets, queue,
                   accepted_count, manager_dropped>>

\* ListenerManager::accept: what recv() gives, None turned into an error by
\* .context(..)?.  Callers take socket_rx's mutex in turn, one recv() at a time.
ListenerManager_accept ==
    /\ ~manager_dropped
    /\ recv_ready
    /\ delivered' = Some(IF recv = None THEN Err ELSE Ok(Unwrap(recv)))
    /\ queue' = IF queue = << >> THEN queue ELSE Tail(queue)
    /\ UNCHANGED <<listeners, listeners_lock, task, loop, held, shutdown, sockets,
                   accepted_count, manager_dropped>>

\* main returns with an error after some listener was started: the App is
\* dropped, every Listener of the table with it (Drop calls shutdown()), and
\* the channel's receiver with the messages it holds
ListenerManager_drop ==
    /\ ~manager_dropped
    /\ \A t \in Tasks : task[t].pc = "idle"
    /\ manager_dropped' = TRUE
    /\ shutdown' = [a \in ListenAddrs |-> shutdown[a] \/ a \in listeners]
    /\ listeners' = {}
    /\ queue' = << >>
    /\ UNCHANGED <<listeners_lock, task, loop, held, sockets, delivered, accepted_count>>

start_begins ==
    /\ \E t \in Tasks, addr \in ListenAddrs : start_listening_on(t, addr)
    /\ UNCHANGED <<handler_vars, tls_vars, supervisor_vars>>

bind_succeeds ==
    /\ \E t \in Tasks : Listener_start_ok(t)
    /\ UNCHANGED <<handler_vars, tls_vars, supervisor_vars>>

bind_fails ==
    /\ \E t \in Tasks : Listener_start_err(t)
    /\ UNCHANGED <<handler_vars, tls_vars, supervisor_vars>>

stop_begins ==
    /\ \E t \in Tasks, addr \in ListenAddrs : stop_listening_on(t, addr)
    /\ UNCHANGED <<handler_vars, tls_vars, supervisor_vars>>

stop_returns ==
    /\ \E t \in Tasks : Listener_shutdown_complete(t)
    /\ UNCHANGED <<handler_vars, tls_vars, supervisor_vars>>

accept_succeeds ==
    /\ \E a \in ListenAddrs : loop_accept_ok(a)
    /\ UNCHANGED <<handler_vars, tls_vars, supervisor_vars>>

accept_fails ==
    /\ \E a \in ListenAddrs : loop_accept_err(a)
    /\ UNCHANGED <<handler_vars, tls_vars, supervisor_vars>>

sleep_ends ==
    /\ \E a \in ListenAddrs : loop_sleep_over(a)
    /\ UNCHANGED <<handler_vars, tls_vars, supervisor_vars>>

send_completes ==
    /\ \E a \in ListenAddrs : loop_send(a)
    /\ UNCHANGED <<handler_vars, tls_vars, supervisor_vars>>

\* the runtime polls the loop of listen address a after shutdown()
loop_cancelled(a) == loop_cancel(a) /\ UNCHANGED <<handler_vars, tls_vars, supervisor_vars>>

connection_delivered == ListenerManager_accept /\ UNCHANGED <<handler_vars, tls_vars, supervisor_vars>>

manager_is_dropped == ListenerManager_drop /\ UNCHANGED <<handler_vars, tls_vars, supervisor_vars>>

ListenerNext ==
    \/ start_begins
    \/ bind_succeeds
    \/ bind_fails
    \/ stop_begins
    \/ stop_returns
    \/ accept_succeeds
    \/ accept_fails
    \/ sleep_ends
    \/ send_completes
    \/ \E a \in ListenAddrs : loop_cancelled(a)
    \/ connection_delivered
    \/ manager_is_dropped

(***************************************************************************)
(* The handler: RequestHandler::call around proxy_request                  *)
(***************************************************************************)
\* TlsManager::new
TlsManager_new ==
    /\ acceptors = [listen_addr \in ListenAddrs |-> None]
    /\ registered = << >>
    /\ tls_call = None

\* a stream no task was spawned for
NoClient == [state |-> "none", listen_addr |-> "none", sni_hostname |-> None, tasks |-> 0]

\* main before its first loop: no task spawned, no request served
main_begins ==
    /\ main = [pc |-> "keys", i |-> 1]
    /\ clients = [s \in 1..MaxAccepted |-> NoClient]
    /\ served = None

Init ==
    /\ TlsManager_new
    /\ ListenerManager_new
    /\ main_begins
    /\ pc = "idle"
    /\ conn = None
    /\ request = None
    /\ server = 0
    /\ is_public = FALSE
    /\ intro = "none"
    /\ token_info = None
    /\ upstream_request = None
    /\ upstream_failed = FALSE
    /\ response = None
    /\ introspect_calls = 0
    /\ upstream_calls = 0

\* proxy_request returns `result`; call resolves
Respond(result) ==
    /\ pc' = "responded"
    /\ response' = Some(call_result(result))
    /\ upstream_request' = None
    /\ token_info' = None
    /\ UNCHANGED upstream_calls

\* lines 248-279: build the upstream request and hand it to http.execute
Execute(self, req, sv, tok) ==
    LET up == build_upstream_request(self, req, servers[sv], tok) IN
    IF up.ok
    THEN /\ pc' = "forwarding"
         /\ upstream_request' = Some(up.v)
         /\ token_info' = tok
         /\ upstream_calls' = upstream_calls + 1
         /\ response' = None
    ELSE Respond(Err)

\* call(request): proxy_request up to its first await
call(self, req) ==
    /\ pc = "idle"
    /\ conn' = Some(self)
    /\ request' = Some(req)
    /\ UNCHANGED <<intro, upstream_failed>>
    /\ LET host_name == extract_host_name(self, req)
           sv == IF host_name.ok THEN find_server(self, host_name.v) ELSE 0
           public == sv # 0 /\ is_public_route(servers[sv], req.uri)
       IN  /\ server' = sv
           /\ is_public' = public
           /\ IF sv = 0
              THEN Respond(synthetic_response(400)) /\ UNCHANGED introspect_calls
              ELSE IF public
              THEN Execute(self, req, sv, None) /\ UNCHANGED introspect_calls
              ELSE IF verify_access_token_begin(req) = None
              THEN Respond(synthetic_response(401)) /\ UNCHANGED introspect_calls
              ELSE /\ pc' = "introspecting"
                   /\ introspect_calls' = introspect_calls + 1
                   /\ UNCHANGED <<response, upstream_request, token_info, upstream_calls>>

\* the introspection call completes with `introspection`
introspection_returns(introspection) ==
    /\ pc = "introspecting"
    /\ intro' = IF ~introspection.ok THEN "failed"
                ELSE IF introspection.v.active THEN "active" ELSE "inactive"
    /\ UNCHANGED <<conn, request, server, is_public, upstream_failed, introspect_calls>>
    /\ LET verified == verify_access_token_end(introspection) IN
       IF ~verified.ok THEN Respond(Err)
       ELSE IF verified.v = None THEN Respond(synthetic_response(401))
       ELSE Execute(Unwrap(conn), Unwrap(request), server, verified.v)

\* an executor that issues the upstream request a second time when it failed
upstream_returns_with_retry(executed) ==
    /\ pc = "forwarding"
    /\ IF ~executed.ok /\ upstream_calls < 2
       THEN /\ upstream_calls' = upstream_calls + 1
            /\ UNCHANGED <<pc, upstream_failed, response, upstream_request, token_info>>
       ELSE /\ pc' = "responded"
            /\ upstream_failed' = ~executed.ok
            /\ response' = Some(call_result(
                    IF executed.ok
                    THEN mirror_response(executed.v, Unwrap(request).version)
                    ELSE Err))
            /\ upstream_request' = None
            /\ token_info' = None
            /\ UNCHANGED upstream_calls
    /\ UNCHANGED <<conn, request, server, is_public, intro, introspect_calls>>

\* http.execute completes with `executed`: Err, or Ok(status of the upstream response)
upstream_returns(executed) ==
    /\ pc = "forwarding"
    /\ pc' = "responded"
    /\ upstream_failed' = ~executed.ok
    /\ response' = Some(call_result(
            IF executed.ok THEN mirror_response(executed.v, Unwrap(request).version)
            ELSE Err))
    /\ upstream_request' = None
    /\ token_info' = None
    /\ UNCHANGED <<conn, request, server, is_public, intro, introspect_calls, upstream_calls>>

\* the response is written; the handler waits for the next request
done ==
    /\ pc = "responded"
    /\ pc' = "idle"
    /\ conn' = None
    /\ request' = None
    /\ server' = 0
    /\ is_public' = FALSE
    /\ intro' = "none"
    /\ token_info' = None
    /\ upstream_request' = None
    /\ upstream_failed' = FALSE
    /\ response' = None
    /\ introspect_calls' = 0
    /\ upstream_calls' = 0
    /\ UNCHANGED <<tls_vars, listener_vars, supervisor_vars>>

\* hyper invokes the service for the next request of some connection
request_arrives ==
    /\ pc = "idle"
    /\ \E self \in Connections, req \in Requests : call(self, req)
    /\ UNCHANGED <<tls_vars, listener_vars, supervisor_vars>>

introspection_succeeds ==
    /\ pc = "introspecting"
    /\ \E r \in IntrospectionResults : introspection_returns(Ok(r))
    /\ UNCHANGED <<tls_vars, listener_vars, supervisor_vars>>

introspection_fails == introspection_returns(Err) /\ UNCHANGED <<tls_vars, listener_vars, supervisor_vars>>

\* the introspection endpoint answers with `body`: request_async decodes it, and
\* a body it cannot decode is an error of the call like any other
introspection_answers ==
    /\ pc = "introspecting"
    /\ \E body \in IntrospectionBodies :
          LET decoded == deserialize_introspection(body) IN
          IF decoded.ok THEN introspection_returns(decoded)
          ELSE /\ intro' = "undecodable"
               /\ Respond(Err)
               /\ UNCHANGED <<conn, request, server, is_public, upstream_failed,
                              introspect_calls>>
    /\ UNCHANGED <<tls_vars, listener_vars, supervisor_vars>>

upstream_responds ==
    /\ pc = "forwarding"
    /\ \E status \in UpstreamStatuses : upstream_returns(Ok(status))
    /\ UNCHANGED <<tls_vars, listener_vars, supervisor_vars>>

upstream_fails == upstream_returns(Err) /\ UNCHANGED <<tls_vars, listener_vars, supervisor_vars>>

Next ==
    \/ request_arrives
    \/ introspection_succeeds
    \/ introspection_fails
    \/ introspection_answers
    \/ upstream_responds
    \/ upstream_fails
    \/ done

Spec == Init /\ [][Next]_vars

\* the TlsManager and its resolvers under any sequence of calls
SpecTls == Init /\ [][TlsNext]_vars

\* the listeners, the accept queue and the callers of the ListenerManager
SpecListeners == Init /\ [][ListenerNext]_vars

\* the same, with the tokio runtime polling a task that has been woken: a loop
\* whose Shutdown was triggered, and a caller whose wait_shutdown_complete()
\* is ready.  Nothing obliges accept() to be called or connections to arrive.
SpecListenersFair ==
    /\ SpecListeners
    /\ \A a \in ListenAddrs : WF_vars(loop_cancelled(a))
    /\ WF_vars(stop_returns)

\* the same, with the queue drained and the loops making progress: the sleep of
\* one second ends, the supervisor keeps calling accept(), and a send that
\* waits for a permit gets one when its turn comes (the channel's semaphore
\* serves its waiters in order, so a sender is not overtaken for ever)
SpecListenersDrained ==
    /\ SpecListenersFair
    /\ WF_vars(connection_delivered)
    /\ \A a \in ListenAddrs :
          /\ WF_vars(loop_sleep_over(a) /\ UNCHANGED <<handler_vars, tls_vars, supervisor_vars>>)
          /\ SF_vars(loop_send(a) /\ UNCHANGED <<handler_vars, tls_vars, supervisor_vars>>)

(***************************************************************************)
(* The program: main, its accept loop and handle_client (src/src/main.rs)  *)
(***************************************************************************)
\* Server.tls of each server of the configuration: the certified key its
\* cert / key files hold, or None
server_tls == <<Some("k1"), None, None, None, Some("k2")>>

\* the Host headers of the requests sent on accepted connections
ServedHosts == {Some(<<"a">>), Some(<<"B">>)}

AfterKey(i) ==
    IF i < Len(servers) THEN [pc |-> "keys", i |-> i + 1] ELSE [pc |-> "listen", i |-> 1]

AfterListen(i) ==
    IF i < Len(servers) THEN [pc |-> "listen", i |-> i + 1] ELSE [pc |-> "loop", i |-> 0]

\* main, lines 45-56: one turn of the loop over the servers' TLS material.
\* load_certified_key fails or gives the key; `?` makes main return
main_add_certified_key ==
    /\ main.pc = "keys"
    /\ IF server_tls[main.i] = None
       THEN /\ main' = AfterKey(main.i)
            /\ UNCHANGED tls_vars
       ELSE \E loaded \in {Ok(Unwrap(server_tls[main.i])), Err} :
               IF ~loaded.ok
               THEN /\ main' = [pc |-> "returning", i |-> main.i]
                    /\ UNCHANGED tls_vars
               ELSE LET server_config == servers[main.i]
                        added == TlsManager_add_certified_key(acceptors, server_config.listen,
                                                              server_config.name, loaded.v)
                    IN  /\ acceptors' = added.acceptors
                        /\ registered' =
                              IF added.ok
                              THEN Append(registered, [listen_addr |-> server_config.listen,
                                                       server_name |-> server_config.name,
                                                       certified_key |-> loaded.v])
                              ELSE registered
                        /\ tls_call' = TlsCall("add_certified_key", server_config.listen,
                                               Some(server_config.name), Some(loaded.v),
                                               added.ok, None)
                        /\ main' = IF added.ok THEN AfterKey(main.i)
                                   ELSE [pc |-> "returning", i |-> main.i]
    /\ UNCHANGED <<handler_vars, listener_vars, clients, served>>

\* main, lines 58-62: start_listening_on for the next server
main_start_listening_on ==
    /\ main.pc = "listen"
    /\ start_listening_on("t1", servers[main.i].listen)
    /\ main' = IF servers[main.i].listen \in listeners THEN AfterListen(main.i)
               ELSE [pc |-> "binding", i |-> main.i]
    /\ UNCHANGED <<handler_vars, tls_vars, clients, served>>

main_bind_succeeds ==
    /\ main.pc = "binding"
    /\ Listener_start_ok("t1")
    /\ main' = AfterListen(main.i)
    /\ UNCHANGED <<handler_vars, tls_vars, clients, served>>

\* the bind error goes through `?` in start_listening_on and in main
main_bind_fails ==
    /\ main.pc = "binding"
    /\ Listener_start_err("t1")
    /\ main' = [pc |-> "returning", i |-> main.i]
    /\ UNCHANGED <<handler_vars, tls_vars, clients, served>>

\* main returns the error: the App is dropped
main_returns ==
    /\ main.pc = "returning"
    /\ ListenerManager_drop
    /\ main' = [pc |-> "returned", i |-> main.i]
    /\ UNCHANGED <<handler_vars, tls_vars, clients, served>>

\* tokio::spawn(handle_client(app, accepted)), up to the first await of the
\* task: the RequestHandler is made without SNI name, and the acceptor of the
\* listen address decides between the TLS handshake and serving at once.
\* (acceptors does not change once main is in its loop.)
spawn_handle_client(cl, accepted) ==
    [cl EXCEPT ![accepted.stream] =
        [state |-> IF TlsManager_acceptor(acceptors, accepted.listen_addr) # None
                   THEN "handshake" ELSE "serving",
         listen_addr |-> accepted.listen_addr,
         sni_hostname |-> None,
         tasks |-> @.tasks + 1]]

\* a supervisor that hands the connection to two tasks
main_loop_spawning_twice ==
    /\ main.pc = "loop"
    /\ ListenerManager_accept
    /\ LET accepted == Unwrap(delivered') IN
       clients' = IF accepted.ok
                  THEN [spawn_handle_client(clients, accepted.v)
                            EXCEPT ![accepted.v.stream].tasks = @ + 1]
                  ELSE clients
    /\ UNCHANGED <<handler_vars, tls_vars, main, served>>

\* main, lines 66-85: one turn of the accept loop; an error of accept() is
\* printed and followed by a sleep, a connection is given to a new task
main_loop ==
    /\ main.pc = "loop"
    /\ ListenerManager_accept
    /\ LET accepted == Unwrap(delivered') IN
       clients' = IF accepted.ok THEN spawn_handle_client(clients, accepted.v) ELSE clients
    /\ UNCHANGED <<handler_vars, tls_vars, main, served>>

\* tls_acceptor.accept(stream) succeeds: the resolver of the address had a key
\* for the name of the ClientHello, which becomes handler.sni_hostname
tls_accept_ok(s) ==
    /\ clients[s].state = "handshake"
    /\ \E server_name \in ClientHelloNames :
          /\ CertResolver_resolve(Unwrap(acceptors[clients[s].listen_addr]), server_name) # None
          /\ clients' = [clients EXCEPT ![s].state = "serving",
                                        ![s].sni_hostname = server_name]
    /\ UNCHANGED <<handler_vars, tls_vars, listener_vars, main, served>>

\* tls_acceptor.accept(stream) fails, for want of a certificate or for any
\* other reason: `?` ends the task
tls_accept_err(s) ==
    /\ clients[s].state = "handshake"
    /\ clients' = [clients EXCEPT ![s].state = "failed"]
    /\ UNCHANGED <<handler_vars, tls_vars, listener_vars, main, served>>

\* the RequestHandler of stream s
HandlerOf(s) ==
    [listen_addr |-> clients[s].listen_addr, sni_hostname |-> clients[s].sni_hostname,
     client_addr |-> CHOOSE c \in ClientAddrs : TRUE]

\* the server proxy_request selects for a request with this Host header
RouteOf(self, host) ==
    LET host_name == extract_host_name(self, ClientRequest("HTTP/1.1", <<"/a">>, None, host,
                                                            None, None, None, None))
    IN  IF host_name.ok THEN find_server(self, host_name.v) ELSE 0

\* serve_connection calls the handler with a request of the connection
serve_request(s) ==
    /\ clients[s].state = "serving"
    /\ \E host \in ServedHosts :
          served' = Some([stream |-> s, host |-> host, server |-> RouteOf(HandlerOf(s), host)])
    /\ UNCHANGED <<handler_vars, tls_vars, listener_vars, main, clients>>

\* serve_connection returns an error: `?` ends the task
serve_connection_err(s) ==
    /\ clients[s].state = "serving"
    /\ clients' = [clients EXCEPT ![s].state = "failed"]
    /\ UNCHANGED <<handler_vars, tls_vars, listener_vars, main, served>>

\* serve_connection returns Ok: the client closed the connection
serve_connection_ok(s) ==
    /\ clients[s].state = "serving"
    /\ clients' = [clients EXCEPT ![s].state = "closed"]
    /\ UNCHANGED <<handler_vars, tls_vars, listener_vars, main, served>>

handshake_succeeds == \E s \in 1..MaxAccepted : tls_accept_ok(s)
handshake_fails == \E s \in 1..MaxAccepted : tls_accept_err(s)
request_served == \E s \in 1..MaxAccepted : serve_request(s)
serving_fails == \E s \in 1..MaxAccepted : serve_connection_err(s)
connection_closed == \E s \in 1..MaxAccepted : serve_connection_ok(s)

MainNext ==
    \/ main_add_certified_key
    \/ main_start_listening_on
    \/ main_bind_succeeds
    \/ main_bind_fails
    \/ main_returns
    \/ main_loop
    \/ accept_succeeds
    \/ accept_fails
    \/ sleep_ends
    \/ send_completes
    \/ \E a \in ListenAddrs : loop_cancelled(a)
    \/ handshake_succeeds
    \/ handshake_fails
    \/ request_served
    \/ serving_fails
    \/ connection_closed

\* the program from main on: startup, the listener loops, the supervisor and
\* the per-connection tasks
SpecMain == Init /\ [][MainNext]_vars

(***************************************************************************)
(* Properties                                                              *)
(***************************************************************************)
Req == Unwrap(request)
Conn == Unwrap(conn)
Up == Unwrap(upstream_request)
Resp == Unwrap(response)

\* the path of the request matches the selected server's compiled route set
PathMatchesPublicRoute ==
    server # 0 /\ RegexSetIsMatch(servers[server].public_routes, Req.uri.path)

IdentityHeaders == {X_USER_ID, X_USER_NAME, X_USER_ROLE}
DangerousHeaders == {HOST, AUTHORIZATION} \cup IdentityHeaders

NoClientValue(headers, n) ==
    \A i \in 1..Len(headers[n]) : headers[n][i].by # "client"

\* C1: on every request passed to the upstream no value of Host, Authorization,
\* X-User-Id, X-User-Name or X-User-Role is one the client sent, and a request on
\* a public route carries none of the three X-User-* headers.
C1_NoClientDangerousHeader ==
    pc = "forwarding" =>
        /\ \A n \in DangerousHeaders : NoClientValue(Up.headers, n)
        /\ PathMatchesPublicRoute => \A n \in IdentityHeaders : Up.headers[n] = << >>

TokenMissing == extract_access_token(Req) = None

MatchesWholePath(p, text) ==
    \E alt \in Alternatives(p) : MatchFrom(<<"^">> \o alt \o <<"$">>, 1, text, 0)

\* C4: a request is public if and only if some pattern of the selected server's
\* public_routes matches the whole URI path; a match of a prefix, a suffix or an
\* inner part does not make it public, and the query string plays no part.
C4_PublicIffWholePathMatch ==
    (pc # "idle" /\ server # 0) =>
        (is_public <=>
            \E n \in 1..Len(config_file[server].public_routes) :
                MatchesWholePath(config_file[server].public_routes[n], Req.uri.path))

IsProxyValue(val) == val.by = "proxy"
IsClientValue(val) == val.by = "client"
ValuesOf(vals) == [i \in 1..Len(vals) |-> vals[i].v]

\* C5: for an active introspection result the upstream request carries X-User-Id
\* equal to sub when sub is present, X-User-Name equal to the user name when it is
\* present, and the proxy appends one X-User-Role value per role claim that is a
\* valid header value, in the order of the role list.
C5_IdentityInjected ==
    (pc = "forwarding" /\ token_info # None) =>
        LET tok == Unwrap(token_info)
            roles == Up.headers[X_USER_ROLE]
            kept == SelectSeq(roles, IsClientValue)
        IN  /\ tok.sub # None =>
                Up.headers[X_USER_ID] = <<ProxyValue(Unwrap(tok.sub))>>
            /\ tok.username # None =>
                Up.headers[X_USER_NAME] = <<ProxyValue(Unwrap(tok.username))>>
            /\ ValuesOf(SelectSeq(roles, IsProxyValue)) =
                SelectSeq(tok.roles, IsValidHeaderValue)
            /\ roles = kept \o SelectSeq(roles, IsProxyValue)

C5_Witness ==
    /\ pc = "forwarding"
    /\ token_info # None
    /\ Unwrap(token_info).roles = << <<"admin">>, <<"ops">> >>
    /\ Up.headers[X_USER_ID] = <<ProxyValue(<<"u1">>)>>
    /\ Up.headers[X_USER_NAME] = <<ProxyValue(<<"alice">>)>>
    /\ Up.headers[X_USER_ROLE] = <<ProxyValue(<<"admin">>), ProxyValue(<<"ops">>)>>


\* C6: the URI handed to the upstream executor has scheme https when the selected
\* server's upstream_tls is set and http otherwise, its authority is the server's
\* upstream, and its path and query are exactly those of the inbound request.
C6_UpstreamUri ==
    pc = "forwarding" =>
        /\ Up.url.scheme = Some(IF servers[server].upstream_tls THEN "https" ELSE "http")
        /\ Up.url.authority = Some(servers[server].upstream)
        /\ Up.url.path = Req.uri.path
        /\ Up.url.query = Req.uri.query

\* C7: every response the handler produces, synthetic or mirroring the upstream,
\* carries the HTTP version of the client's request.
C7_ResponseVersion ==
    pc = "responded" => Resp.version = Req.version

ToAsciiUpper(c) ==
    CASE c = "a" -> "A"
      [] c = "b" -> "B"
      [] c = "c" -> "C"
      [] OTHER -> c

CaseVariants(h) ==
    {[i \in 1..Len(h) |-> ToAsciiLower(h[i])], [i \in 1..Len(h) |-> ToAsciiUpper(h[i])]}

\* the servers on the connection's listen address named h, ignoring letter case
ServersNamed(h) ==
    {i \in 1..Len(servers) :
        servers[i].listen = Conn.listen_addr /\ AsciiEq(servers[i].name, h)}

Rejected400 ==
    /\ pc = "responded"
    /\ Resp.status = 400
    /\ introspect_calls = 0
    /\ upstream_calls = 0

\* C8: the selected server is on the connection's listen address and has the
\* resolved hostname as its name, ignoring ASCII letter case; the selection is the
\* same for every letter-casing of the hostname; when no server matches, the
\* response is 400 and neither introspection nor the upstream is called.
C8_VirtualHostRouting ==
    (pc # "idle" /\ extract_host_name(Conn, Req).ok) =>
        LET h == extract_host_name(Conn, Req).v IN
        /\ server # 0 => server \in ServersNamed(h)
        /\ server = 0 <=> ServersNamed(h) = {}
        /\ \A h2 \in CaseVariants(h) : find_server(Conn, h2) = server
        /\ server = 0 => Rejected400

C8_Witness ==
    /\ pc # "idle"
    /\ server # 0
    /\ Conn.sni_hostname = None
    /\ extract_host_name(Conn, Req).v # servers[server].name
    /\ \E i \in 1..Len(servers) :
          i # server /\ servers[i].name = servers[server].name

\* C9: the hostname is the SNI hostname when the connection has one, whatever the
\* Host header says, and otherwise the part of the Host header before the first
\* ':'; without SNI, a Host header that is absent, not text or gives an empty
\* hostname is answered with 400 and neither introspection nor the upstream is called.
C9_HostResolution ==
    pc # "idle" =>
        LET host == HeaderGet(Req.headers, HOST) IN
        /\ Conn.sni_hostname # None =>
              server = find_server(Conn, Unwrap(Conn.sni_hostname))
        /\ (Conn.sni_hostname = None /\ host # None /\ IsText(Unwrap(host).v)) =>
              server = find_server(Conn, BeforeFirstColon(Unwrap(host).v))
        /\ (Conn.sni_hostname = None /\
                (\/ host = None
                 \/ ~IsText(Unwrap(host).v)
                 \/ BeforeFirstColon(Unwrap(host).v) = << >>)) => Rejected400

PassedGate ==
    /\ pc \in {"forwarding", "responded"}
    /\ server # 0
    /\ PathMatchesPublicRoute \/ intro = "active"

\* the request was authenticated by exactly one completed introspection call
IntrospectedActive == introspect_calls = 1 /\ intro = "active"

BuildFailed ==
    /\ pc = "responded"
    /\ upstream_calls = 0
    /\ Resp.status = 500

ForwardedFor(client_addr) ==
    IF client_addr.family = "V6" THEN <<"\"">> \o client_addr.text \o <<"\"">>
    ELSE client_addr.text

\* C12: the upstream request carries exactly one Forwarded value, for=<client
\* address>, the address bare when it is IPv4 and inside double quotes when it is
\* IPv6; a Forwarded value sent by the client never reaches the upstream.
C12_ForwardedHeader ==
    pc = "forwarding" =>
        /\ Len(Up.headers[FORWARDED]) = 1
        /\ Up.headers[FORWARDED][1].v = <<"for=">> \o ForwardedFor(Conn.client_addr)
        /\ NoClientValue(Up.headers, FORWARDED)

C12_Witness ==
    /\ pc = "forwarding"
    /\ Req.headers[FORWARDED] = <<ClientValue(<<"for=", "6.6.6.6">>)>>
    /\ Conn.client_addr.family = "V6"
    /\ Up.headers[FORWARDED] = <<ProxyValue(<<"for=", "\"", "[::1]:5", "\"">>)>>

\* positions of s where a whitespace-separated field starts
FieldStarts(s) == {i \in 1..Len(s) : s[i] # " " /\ (i = 1 \/ s[i - 1] = " ")}

\* the n-th whitespace-separated field of s
Field(s, n) ==
    LET start == CHOOSE i \in FieldStarts(s) :
                    Cardinality({j \in FieldStarts(s) : j <= i}) = n
        end == CHOOSE j \in start..Len(s) :
                    /\ \A k \in start..j : s[k] # " "
                    /\ j = Len(s) \/ s[j + 1] = " "
    IN  SubSeq(s, start, end)

\* the Authorization header of the request is text of at least two fields whose
\* first is bearer or token in any letter case
HasBearerToken ==
    /\ Req.headers[AUTHORIZATION] # << >>
    /\ LET auth == Req.headers[AUTHORIZATION][1].v IN
       /\ IsText(auth)
       /\ Cardinality(FieldStarts(auth)) >= 2
       /\ [i \in 1..Len(Field(auth, 1)) |-> ToAsciiLower(Field(auth, 1)[i])]
              \in {<<"bearer">>, <<"token">>}

\* C13: extract_access_token returns a token exactly when the Authorization header
\* is text with at least two whitespace-separated fields whose first is bearer or
\* token ignoring letter case; the token is the second field; for any other
\* request there is no token and no introspection call.
C13_TokenExtraction ==
    pc # "idle" =>
        /\ extract_access_token(Req) # None <=> HasBearerToken
        /\ HasBearerToken =>
              extract_access_token(Req) = Some(Field(Req.headers[AUTHORIZATION][1].v, 2))
        /\ ~HasBearerToken => introspect_calls = 0
        /\ introspect_calls = 1 => verify_access_token_begin(Req) # None

C13_Witness ==
    /\ pc = "introspecting"
    /\ Req.headers[AUTHORIZATION] = <<ClientValue(<<" ", "bearer", " ", "t", " ", "x">>)>>
    /\ extract_access_token(Req) = Some(<<"t">>)
    /\ introspect_calls = 1

(***************************************************************************)
(* Properties of the certificate resolver and the TlsManager               *)
(***************************************************************************)
TlsCalled == Unwrap(tls_call)

\* the map of names to keys of the resolver of listen_addr (empty without one)
CertifiedKeysOf(acc, listen_addr) ==
    IF acc[listen_addr] = None THEN {} ELSE Unwrap(acc[listen_addr])

\* C18: a registration under a server name that is not a valid ASCII DNS name
\* returns an error, and the map of names to keys of every resolver is after the
\* call what it was before.
C18_InvalidNameRejected ==
    [][(/\ tls_call' # tls_call
        /\ Unwrap(tls_call').op = "add_certified_key"
        /\ ~IsDnsName(Unwrap(Unwrap(tls_call').server_name)))
        => /\ ~Unwrap(tls_call').ok
           /\ \A a \in ListenAddrs :
                 CertifiedKeysOf(acceptors', a) = CertifiedKeysOf(acceptors, a)]_vars

C18_Witness ==
    /\ tls_call # None
    /\ TlsCalled.op = "add_certified_key"
    /\ TlsCalled.server_name = Some(<<"b", " ">>)
    /\ ~TlsCalled.ok
    /\ CertifiedKeysOf(acceptors, TlsCalled.listen_addr) =
          {[name |-> <<"b">>, key |-> "k1"]}

\* the key of the latest registration on listen_addr under a name equal to
\* name ignoring ASCII letter case
LastRegistered(listen_addr, name) ==
    LET hits == {i \in 1..Len(registered) :
                    /\ registered[i].listen_addr = listen_addr
                    /\ AsciiEq(registered[i].server_name, name)}
    IN  IF hits = {} THEN None
        ELSE Some(registered[CHOOSE i \in hits : \A j \in hits : j <= i].certified_key)

\* what a last-write-wins map of listen_addr answers for the SNI server_name
ExpectedKey(listen_addr, server_name) ==
    IF server_name = None THEN None ELSE LastRegistered(listen_addr, Unwrap(server_name))

\* C19: per listen address resolve answers as a last-write-wins map keyed by
\* server name ignoring ASCII letter case: the key most recently registered on
\* that address under an equal name, none when the SNI is absent or no such name
\* is registered, and never a key registered only on another address.
C19_LastWriteWins ==
    /\ \A a \in ListenAddrs : acceptors[a] # None =>
          \A n \in ClientHelloNames :
              CertResolver_resolve(Unwrap(acceptors[a]), n) = ExpectedKey(a, n)
    /\ (tls_call # None /\ TlsCalled.op = "resolve") =>
          /\ TlsCalled.ret = ExpectedKey(TlsCalled.listen_addr, TlsCalled.server_name)
          /\ TlsCalled.ret # None =>
                \E i \in 1..Len(registered) :
                    /\ registered[i].listen_addr = TlsCalled.listen_addr
                    /\ registered[i].certified_key = Unwrap(TlsCalled.ret)

C19_Witness ==
    /\ tls_call # None
    /\ TlsCalled.op = "resolve"
    /\ TlsCalled.listen_addr = "L1"
    /\ TlsCalled.server_name = Some(<<"a">>)
    /\ TlsCalled.ret = Some("k2")
    /\ registered =
          <<[listen_addr |-> "L1", server_name |-> <<"a">>, certified_key |-> "k1"],
            [listen_addr |-> "L1", server_name |-> <<"A">>, certified_key |-> "k2"],
            [listen_addr |-> "L2", server_name |-> <<"a">>, certified_key |-> "k1"]>>

\* C20: acceptor(listen_addr) returns an acceptor if and only if at least one
\* certified key is registered for that listen address; an address for which
\* every registration failed has none.
C20_AcceptorIffKey ==
    \A a \in ListenAddrs :
        TlsManager_acceptor(acceptors, a) # None <=>
            \E i \in 1..Len(registered) : registered[i].listen_addr = a

(***************************************************************************)
(* Properties of the listeners and the accept queue                        *)
(***************************************************************************)
\* the connections of the queue that listen address a accepted
QueuedFrom(q, a) == {q[i] : i \in {j \in 1..Len(q) : q[j].listen_addr = a}}

\* a call of `op` by task t returns in this step
Returns(t, op) ==
    /\ task'[t] # task[t]
    /\ task'[t].pc = "idle"
    /\ task'[t].op = op

\* a loop in send holds one connection of its own that is not in the queue yet
HoldsOne(a) ==
    /\ held[a] # None
    /\ Unwrap(held[a]).listen_addr = a
    /\ \A i \in 1..Len(queue) : queue[i] # Unwrap(held[a])

\* C14: the accept queue never holds more than its capacity; a listener that
\* finds the queue full waits in send holding exactly one accepted connection, and
\* it goes back to accept only by putting that connection at the end of the queue.
C14_QueueBounded ==
    /\ [](/\ Len(queue) <= MAX_UNACCEPTED_SOCKETS
          /\ \A a \in ListenAddrs : IF loop[a] = "send" THEN HoldsOne(a) ELSE held[a] = None)
    /\ [][\A a \in ListenAddrs : loop[a] = "send" =>
            \/ loop'[a] = "send" /\ held'[a] = held[a]
                   /\ QueuedFrom(queue', a) \subseteq QueuedFrom(queue, a)
            \/ loop'[a] = "accept" /\ held'[a] = None
                   /\ Len(queue) < MAX_UNACCEPTED_SOCKETS
                   /\ queue' = Append(queue, Unwrap(held[a]))
            \/ loop'[a] = "none" /\ held'[a] = None /\ (shutdown[a] \/ manager_dropped)
                   /\ QueuedFrom(queue', a) \subseteq QueuedFrom(queue, a)]_vars

C14_Witness ==
    /\ Len(queue) = MAX_UNACCEPTED_SOCKETS
    /\ \A a \in ListenAddrs : loop[a] = "send" /\ held[a] # None
    /\ ~manager_dropped
    /\ \A a \in ListenAddrs : ~shutdown[a]

\* C15: whatever calls of start_listening_on were made, an address of the table
\* has one open socket and a running loop, and no address has more than one
\* socket; a call that returns Ok leaves its address in the table, changing
\* nothing when it was there already; a call whose bind fails returns an error
\* and leaves the table as it was.
C15_StartIdempotent ==
    /\ [](\A a \in ListenAddrs :
            /\ sockets[a] <= 1
            /\ a \in listeners => (sockets[a] = 1 /\ loop[a] # "none" /\ ~shutdown[a]))
    /\ [][\A t \in Tasks : Returns(t, "start") =>
            LET a == task'[t].addr IN
            /\ task'[t].ret \in {"ok", "err"}
            /\ task'[t].ret = "ok" =>
                  /\ a \in listeners' /\ sockets'[a] = 1
                  /\ a \in listeners => UNCHANGED <<listeners, sockets, loop, shutdown>>
                  /\ a \notin listeners => listeners' = listeners \cup {a}
            /\ task'[t].ret = "err" =>
                  /\ task[t].pc = "binding"
                  /\ a \notin listeners
                  /\ UNCHANGED <<listeners, sockets, loop, shutdown>>]_vars

C15_Witness ==
    /\ \A t \in Tasks : task[t] = TaskAt("idle", "start", "L1", "ok")
    /\ listeners = {"L1"}
    /\ sockets = [a \in ListenAddrs |-> IF a = "L1" THEN 1 ELSE 0]
    /\ accepted_count = 0

\* nothing is in progress on listen address a and it has no Listener
Stopped(a) ==
    /\ a \notin listeners
    /\ \A t \in Tasks : task[t].pc = "idle" \/ task[t].addr # a
    /\ ~manager_dropped

\* C16: stop_listening_on(addr) returns with addr out of the table and its loop
\* gone, so that an address without Listener enqueues nothing; a call for an
\* address without Listener changes nothing; the other addresses keep their
\* Listener and their loop, and the queue is as it was.
C16_StopListening ==
    /\ [](\A a \in ListenAddrs : Stopped(a) =>
            (loop[a] = "none" /\ held[a] = None /\ sockets[a] = 0))
    /\ [][/\ \A a \in ListenAddrs : (loop[a] = "none" /\ loop'[a] = "none") =>
                QueuedFrom(queue', a) \subseteq QueuedFrom(queue, a)
          /\ \A t \in Tasks : Returns(t, "stop") =>
                LET a == task'[t].addr IN
                /\ a \notin listeners' /\ loop'[a] = "none"
                /\ queue' = queue
                /\ listeners' = listeners \ {a}
                /\ \A b \in ListenAddrs \ {a} :
                      loop'[b] = loop[b] /\ held'[b] = held[b] /\ shutdown'[b] = shutdown[b]
                /\ task[t].pc = "idle" =>
                      UNCHANGED <<listeners, loop, held, shutdown, sockets, queue>>]_vars

C16_Witness ==
    /\ task["t1"] = TaskAt("idle", "stop", "L1", "ok")
    /\ Stopped("L1")
    /\ queue # << >> /\ queue[1].listen_addr = "L1"
    /\ "L2" \in listeners /\ loop["L2"] = "send"

\* C17: a shutdown() that was called returns, and the loop is gone by then, in
\* whatever state the loop was: waiting in accept, sleeping after a failed accept,
\* or sending to a full queue that nobody drains; a Listener that is dropped
\* without shutdown() loses its loop as well.
C17_ShutdownReturns ==
    /\ \A t \in Tasks : \A a \in ListenAddrs :
          (task[t].pc = "stopping" /\ task[t].addr = a)
              ~> (task[t] = TaskAt("idle", "stop", a, "ok") /\ loop[a] = "none")
    /\ \A a \in ListenAddrs : \A at \in {"accept", "sleep", "send"} :
          (shutdown[a] /\ loop[a] = at) ~> (loop[a] = "none")
    /\ [][\A t \in Tasks : Returns(t, "stop") => loop'[task'[t].addr] = "none"]_vars

C17_Witness ==
    /\ task["t1"] = TaskAt("stopping", "stop", "L1", "none")
    /\ loop["L1"] = "send"
    /\ Len(queue) = MAX_UNACCEPTED_SOCKETS
    /\ loop["L2"] = "sleep"

(***************************************************************************)
(* Properties of the identity injection                                    *)
(***************************************************************************)
\* sub and the user name of the introspection result r can be header values
IdentityInjectable(r) ==
    /\ r.sub # None => IsValidHeaderValue(Unwrap(r.sub))
    /\ r.username # None => IsValidHeaderValue(Unwrap(r.username))

\* the positions of the role list that hold a valid header value
ValidRoles(roles) == {i \in 1..Len(roles) : IsValidHeaderValue(roles[i])}

\* C21: a role that is not a valid header value is skipped without failing the
\* request: the roles before and after it are appended as X-User-Role values,
\* X-User-Id and X-User-Name are injected, and whatever the role list of an active
\* token is, the request is forwarded when its identity and upstream are well-formed.
C21_InvalidRoleSkipped ==
    /\ (pc = "forwarding" /\ token_info # None) =>
          LET tok == Unwrap(token_info)
              appended == SelectSeq(Up.headers[X_USER_ROLE], IsProxyValue)
          IN  /\ upstream_calls = 1
              /\ Len(appended) = Cardinality(ValidRoles(tok.roles))
              /\ \A i \in ValidRoles(tok.roles) :
                    appended[Cardinality({j \in ValidRoles(tok.roles) : j <= i})].v
                        = tok.roles[i]
              /\ tok.sub # None => Up.headers[X_USER_ID][1].v = Unwrap(tok.sub)
              /\ tok.username # None => Up.headers[X_USER_NAME][1].v = Unwrap(tok.username)
    /\ pc = "introspecting" =>
          \A r \in IntrospectionResults :
              (/\ r.active
               /\ IdentityInjectable(r)
               /\ ParseAuthority(servers[server].upstream).ok) =>
                  build_upstream_request(Conn, Req, servers[server], Some(r)).ok

C21_Witness ==
    /\ pc = "forwarding"
    /\ token_info # None
    /\ Unwrap(token_info).roles = << <<"r", "\\n">>, <<"ops">> >>
    /\ Up.headers[X_USER_ROLE] = <<ProxyValue(<<"ops">>)>>
    /\ Up.headers[X_USER_ID] = <<ProxyValue(<<"u1">>)>>
    /\ Up.headers[X_USER_NAME] = <<ProxyValue(<<"alice">>)>>
    /\ upstream_calls = 1

\* C22: an active introspection response that lacks realm_access.roles, or has
\* it in another shape, is not an error: the request is forwarded upstream and
\* is not answered with 401 or 500.
C22_MissingRolesForwarded ==
    (pc = "responded" /\ intro = "undecodable") =>
        /\ upstream_calls = 1
        /\ Resp.status \notin {401, 500} \/ upstream_failed

\* the loop of listen address a is running
Running(a) == loop[a] # "none"

\* C23: a failed accept never ends a Listener's loop.  The loop goes from
\* accept() into the sleep or into the send and ends only by shutdown or with
\* the manager gone; the sleep leads back to accept(); and a connection the
\* loop holds is appended to the queue, which happens eventually when the queue
\* is drained and the Listener is not shut down.
C23_AcceptFailureNotFatal ==
    /\ [][\A a \in ListenAddrs :
            /\ (Running(a) /\ ~Running(a)') => (shutdown[a] \/ manager_dropped)
            /\ (loop[a] = "accept" /\ loop'[a] # "accept" /\ ~shutdown[a]) =>
                  loop'[a] \in {"sleep", "send"}
            /\ (loop[a] = "send" /\ loop'[a] = "accept") =>
                  queue' = Append(queue, Unwrap(held[a]))]_vars
    /\ \A a \in ListenAddrs :
          /\ (loop[a] = "sleep") ~> (loop[a] = "accept" \/ shutdown[a])
          /\ (loop[a] = "send") ~> (loop[a] = "accept" \/ shutdown[a] \/ manager_dropped)

C23_Witness ==
    /\ loop["L1"] = "sleep" /\ ~shutdown["L1"] /\ ~manager_dropped
    /\ QueuedFrom(queue, "L1") # {}

\* the connections that are somewhere between a Listener and the supervisor
InFlight == {queue[i].stream : i \in 1..Len(queue)}
                \cup {Unwrap(held[a]).stream : a \in {b \in ListenAddrs : held[b] # None}}

\* C24: no Listener event closes the accept queue.  While the manager exists
\* recv() never finds the channel closed, whatever was started, stopped, shut
\* down or failed, so accept() never returns an error; with an empty queue it
\* does not return; and each return hands out the head of the queue and takes it
\* off the queue, so that no two returns give the same connection.
C24_AcceptNeverFails ==
    /\ [](~manager_dropped => Senders > 0)
    /\ [](delivered # None => Unwrap(delivered).ok)
    /\ [](\A i, j \in 1..Len(queue) : queue[i].stream = queue[j].stream => i = j)
    /\ [][/\ (queue = << >> /\ ~manager_dropped) => delivered' = delivered
          /\ (delivered' # delivered) =>
                /\ queue # << >>
                /\ delivered' = Some(Ok(Head(queue)))
                /\ queue' = Tail(queue)
                /\ Head(queue).stream \notin InFlight'
                /\ delivered # None => Unwrap(delivered).v.stream # Head(queue).stream]_vars

C24_Witness ==
    /\ ~manager_dropped
    /\ listeners = {} /\ \A a \in ListenAddrs : loop[a] = "none"
    /\ \E a \in ListenAddrs : shutdown[a]
    /\ queue = << >>
    /\ delivered # None /\ Unwrap(delivered).ok

(***************************************************************************)
(* The supervisor and the per-connection tasks                             *)
(***************************************************************************)
Streams == 1..MaxAccepted

\* the step is the failure of the task of stream s
Fails(s) == clients[s].state # "failed" /\ clients'[s].state = "failed"

\* the step calls a handler with a request
Serves == served' # served

\* C25: a failed handshake or a serving error ends only the task of its
\* connection.  The step changes nothing but that task; the supervisor can
\* dequeue whenever the queue has a connection, whatever became of the tasks;
\* every dequeued connection gets exactly one task; and a connection that is
\* being served can have its next request handled whatever the other tasks
\* came to, routed by its own RequestHandler alone.
C25_FailureIsolated ==
    /\ [][\A s \in Streams : Fails(s) =>
            /\ \A o \in Streams \ {s} : clients'[o] = clients[o]
            /\ clients'[s] = [clients[s] EXCEPT !.state = "failed"]
            /\ UNCHANGED <<main, served, listener_vars, tls_vars>>]_vars
    /\ []((main.pc = "loop" /\ queue # << >>) => ENABLED main_loop)
    /\ [][delivered' # delivered =>
            LET s == Head(queue).stream IN
            /\ clients[s].tasks = 0 /\ clients'[s].tasks = 1
            /\ \A o \in Streams \ {s} : clients'[o] = clients[o]]_vars
    /\ [](\A s \in Streams : clients[s].state = "serving" => ENABLED serve_request(s))
    /\ [][Serves =>
            Unwrap(served').server
                = RouteOf(HandlerOf(Unwrap(served').stream), Unwrap(served').host)]_vars

C25_Witness ==
    /\ main.pc = "loop"
    /\ clients[1].state = "failed" /\ clients[2].state = "failed"
    /\ clients[1].listen_addr # clients[2].listen_addr
    /\ clients[3].state = "serving"
    /\ served # None /\ Unwrap(served).stream = 3 /\ Unwrap(served).server # 0

\* the certified keys registered on listen address a
KeysOn(a) == IF acceptors[a] = None THEN {} ELSE Unwrap(acceptors[a])

\* C26: a listen address is all-TLS or all-plaintext.  On an address with an
\* acceptor a task serves only after the handshake gave it an SNI name that has
\* a certified key on that address, a request is routed by that name and not by
\* its Host header, and the server it reaches has TLS material; on an address
\* without an acceptor no task is ever in the handshake and the SNI name is
\* absent.
C26_AllTlsOrAllPlaintext ==
    /\ [](\A s \in Streams : clients[s].state # "none" =>
            LET c == clients[s] IN
            IF acceptors[c.listen_addr] # None
            THEN /\ c.state \in {"serving", "closed"} => c.sni_hostname # None
                 /\ c.sni_hostname # None =>
                       CertResolver_resolve(KeysOn(c.listen_addr), c.sni_hostname) # None
            ELSE c.state # "handshake" /\ c.sni_hostname = None)
    /\ [](served # None =>
            LET r == Unwrap(served)
                c == clients[r.stream]
            IN  IF acceptors[c.listen_addr] # None
                THEN /\ c.sni_hostname # None
                     /\ r.server = find_server(c, Unwrap(c.sni_hostname))
                     /\ r.server # 0 => server_tls[r.server] # None
                ELSE /\ c.sni_hostname = None
                     /\ r.server = find_server(c, Unwrap(r.host)))
    /\ [][Serves => clients[Unwrap(served').stream].state = "serving"]_vars

C26_Witness ==
    /\ served # None
    /\ LET r == Unwrap(served) IN
       /\ clients[r.stream].listen_addr = "L1"
       /\ clients[r.stream].sni_hostname = Some(<<"c">>)
       /\ r.host = Some(<<"a">>)
       /\ r.server = 5
    /\ \E s \in Streams :
          /\ clients[s].listen_addr = "L2" /\ clients[s].state = "serving"
          /\ clients[s].sni_hostname = None

\* where the connection of stream s is: not yet accepted, held by the loop
\* that accepted it, in the queue, with a task, or nowhere
Holders(s) == {a \in ListenAddrs : held[a] # None /\ Unwrap(held[a]).stream = s}
Queued(s) == {i \in 1..Len(queue) : queue[i].stream = s}

Stage(s) ==
    IF s > accepted_count THEN "unaccepted"
    ELSE IF Holders(s) # {} THEN "held"
    ELSE IF Queued(s) # {} THEN "queued"
    ELSE IF clients[s].state # "none" THEN "task"
    ELSE "lost"

\* the accepted connection of stream s where it is
Carried(s) ==
    IF Holders(s) # {} THEN Unwrap(held[CHOOSE a \in Holders(s) : TRUE])
    ELSE queue[CHOOSE i \in Queued(s) : TRUE]

\* the connection of stream s moves one stage on, with its listen address, or
\* is lost in a step that `MayLose` allows
Moves(s, MayLose(_)) ==
    /\ Stage(s) = "unaccepted" =>
          Stage(s)' \in {"unaccepted", "held"}
    /\ (Stage(s) = "unaccepted" /\ Stage(s)' = "held") =>
          \E a \in ListenAddrs : loop[a] = "accept" /\ held'[a] = Some(Accepted(a, s))
    /\ Stage(s) = "held" => Stage(s)' \in {"held", "queued", "lost"}
    /\ (Stage(s) = "held" /\ Stage(s)' = "queued") => Carried(s)' = Carried(s)
    /\ Stage(s) = "queued" => Stage(s)' \in {"queued", "task", "lost"}
    /\ (Stage(s) = "queued" /\ Stage(s)' = "task") =>
          /\ clients'[s].listen_addr = Carried(s).listen_addr
          /\ clients'[s].tasks = 1
    /\ Stage(s) = "task" => Stage(s)' = "task" /\ clients'[s].tasks = clients[s].tasks
    /\ Stage(s) = "lost" => Stage(s)' = "lost"
    /\ (Stage(s) # "lost" /\ Stage(s)' = "lost") => MayLose(s)

\* an accepted connection is in one place
InOnePlace ==
    \A s \in Streams :
        /\ Cardinality(Holders(s)) + Cardinality(Queued(s))
              + (IF clients[s].state # "none" THEN 1 ELSE 0) <= 1
        /\ clients[s].tasks = IF clients[s].state # "none" THEN 1 ELSE 0

\* the loop that holds s is cancelled: its Listener was shut down or dropped
LostWhileWaiting(s) ==
    \E a \in Holders(s) : loop[a] = "send" /\ (shutdown[a] \/ manager_dropped)

\* the receiver goes away with s in the channel
LostInQueue(s) == Queued(s) # {} /\ ~manager_dropped /\ manager_dropped'

LostWaitingOrQueued(s) == LostWhileWaiting(s) \/ LostInQueue(s)

\* C27 as stated: an accepted connection moves Listener -> queue -> one task,
\* is in one place at a time with one task at most, carries the address of the
\* Listener that accepted it, and is lost only while its Listener, shut down or
\* dropped, waits to enqueue it.
C27_LostOnlyWhileWaiting ==
    /\ []InOnePlace
    /\ [][\A s \in Streams : Moves(s, LostWhileWaiting)]_vars

\* C27 amended: the same, and a connection is also lost when the
\* ListenerManager is dropped while the connection is in the accept queue
\* (main returns because a later listen address could not be bound).
C27_OwnershipMoves ==
    /\ []InOnePlace
    /\ [][\A s \in Streams : Moves(s, LostWaitingOrQueued)]_vars

C27_Witness ==
    /\ main.pc = "loop"
    /\ \E s \in Streams :
          /\ clients[s].state = "closed" /\ clients[s].tasks = 1
          /\ clients[s].listen_addr = "L2"
    /\ \E s \in Streams : Stage(s) = "queued"
    /\ \E s \in Streams : Stage(s) = "held"

====
